---------------------------- MODULE Spec2Model ----------------------------
(***************************************************************************)
(* Model of scripts/fixed_point_data_gen.py: the generator of fixed-point  *)
(* test vectors for the 4x4 systolic array.                                *)
(*                                                                         *)
(* Spec      a run of main(): seed, build_payload's loop over the sizes,   *)
(*           mkdir, the five file writes; then a second run of the same    *)
(*           command line in a fresh process.                              *)
(* SpecPure  saturate_u16 and multiply_matrices applied to inputs drawn    *)
(*           from bounded sets (negative and out-of-range values too).     *)
(***************************************************************************)
EXTENDS Integers, Sequences, FiniteSets, TLC

VARIABLES
    sizes, frac_bits, value_range, seed,   \* args.sizes, args.frac, args.value_range, args.seed
    rng,                                   \* state of the process-wide generator of module random
    pc, idx,                               \* position in main / number of sizes processed
    instructions, data_a, data_b, expected, meta,
    a_base, b_base, o_base, expected_base,
    mats,                                  \* matrix_a, matrix_b, matrix_c of each iteration
    files,                                 \* the output directory: file name -> content
    error,                                 \* the exception that ended the run, if any
    run, prev,                             \* which run this is, and the first run's files
    call, ret                              \* SpecPure: the call made and what it returned

vars == <<sizes, frac_bits, value_range, seed, rng, pc, idx, instructions,
          data_a, data_b, expected, meta, a_base, b_base, o_base,
          expected_base, mats, files, error, run, prev, call, ret>>

(***************************************************************************)
(* Bounds of the model                                                     *)
(***************************************************************************)
MaxBlocks == 2          \* longest size list
SatSpan   == 60         \* saturate_u16 inputs reach this far around 0 and 0xFFFF
MaxRows   == 2          \* rows of a in a multiply_matrices call
MaxCols   == 2          \* columns of b in a multiply_matrices call

SizeDomain  == {-4, 0, 4, 5, 8}
FracDomain  == {0, 2}
RangeDomain == {3, 600}
SeedDomain  == {1, 2}
EntropyDomain == {17, 4242}   \* generator states of a process that has not seeded yet

RECURSIVE SeqsUpTo(_, _)
SeqsUpTo(S, n) ==
    IF n = 0 THEN {<<>>}
    ELSE LET shorter == SeqsUpTo(S, n - 1)
         IN  shorter \cup {Append(s, x) : s \in shorter, x \in S}

(***************************************************************************)
(* The pseudo-random generator: a seeded sequence, one state step per draw *)
(***************************************************************************)
\* the call to random.seed left out: the state stays what the process started with
random_seed_skipped(st, s) == st

\* random.seed(s): the state depends on s alone, whatever the state was
random_seed(st, s) == (s * 7919 + 10473) % 65536

NextRng(st) == (st * 25173 + 13849) % 65536

\* a draw over -value_range..value_range, the signed variant
randint_signed(st, vr) ==
    LET nxt == NextRng(st)
    IN  [value |-> ((nxt * (2 * vr + 1)) \div 65536) - vr, rng |-> nxt]

\* random.randint(0, value_range): one draw, uniform over 0..value_range
randint(st, vr) ==
    LET nxt == NextRng(st)
    IN  [value |-> (nxt * (vr + 1)) \div 65536, rng |-> nxt]

(***************************************************************************)
(* saturate_u16                                                            *)
(***************************************************************************)
\* wraparound to 16 bits instead of saturation
saturate_u16_wraps(value) == value % 65536

saturate_u16(value) ==
    IF value > 65535 THEN 65535
    ELSE IF value < 0 THEN 0
    ELSE value

(***************************************************************************)
(* generate_matrix: rows outer, columns inner, one draw per entry          *)
(***************************************************************************)
RECURSIVE GenRow(_, _, _)
GenRow(cols, vr, st) ==
    IF cols <= 0 THEN [vals |-> <<>>, rng |-> st]
    ELSE LET d    == randint(st, vr)
             rest == GenRow(cols - 1, vr, d.rng)
         IN  [vals |-> <<d.value>> \o rest.vals, rng |-> rest.rng]

RECURSIVE GenRows(_, _, _, _)
GenRows(rows, cols, vr, st) ==
    IF rows <= 0 THEN [matrix |-> <<>>, rng |-> st]
    ELSE LET row  == GenRow(cols, vr, st)
             rest == GenRows(rows - 1, cols, vr, row.rng)
         IN  [matrix |-> <<row.vals>> \o rest.matrix, rng |-> rest.rng]

\* the comprehension with the loops swapped: column outer, row inner
generate_matrix_column_first(rows, cols, vr, st) ==
    LET t == GenRows(cols, rows, vr, st)
    IN  [matrix |-> [r \in 1..(IF rows > 0 THEN rows ELSE 0) |->
                       [c \in 1..(IF cols > 0 THEN cols ELSE 0) |-> t.matrix[c][r]]],
         rng |-> t.rng]

generate_matrix(rows, cols, vr, st) == GenRows(rows, cols, vr, st)

(***************************************************************************)
(* multiply_matrices                                                       *)
(***************************************************************************)
\* Python's x >> n on an int: floor division by 2^n
shift_right(x, n) == x \div (2 ^ n)

\* acc after the first k passes of "for k in range(depth)"
RECURSIVE Accumulate(_, _, _, _, _, _)
Accumulate(a, b, r, c, k, frac) ==
    IF k = 0 THEN 0
    ELSE Accumulate(a, b, r, c, k - 1, frac) + shift_right(a[r][k] * b[k][c], frac)

\* len(b[0]) and len(a[0]) raise IndexError on an empty list
MultiplyRaises(a, b) == Len(b) = 0 \/ Len(a) = 0

\* the shift applied once to the sum of the unshifted products
multiply_matrices_shift_after(a, b, frac) ==
    [r \in 1..Len(a) |-> [c \in 1..Len(b[1]) |->
        saturate_u16(shift_right(Accumulate(a, b, r, c, Len(a[1]), 0), frac))]]

multiply_matrices(a, b, frac) ==
    LET rows  == Len(a)
        cols  == Len(b[1])
        depth == Len(a[1])
    IN  [r \in 1..rows |-> [c \in 1..cols |->
            saturate_u16(Accumulate(a, b, r, c, depth, frac))]]

(***************************************************************************)
(* flatten                                                                 *)
(***************************************************************************)
RECURSIVE flatten_rows(_)
flatten_rows(matrix) ==
    IF Len(matrix) = 0 THEN <<>>
    ELSE Head(matrix) \o flatten_rows(Tail(matrix))

\* the elements taken column by column
flatten_column_major(matrix) ==
    IF Len(matrix) = 0 THEN <<>>
    ELSE LET rows == Len(matrix)
             cols == Len(matrix[1])
         IN  [n \in 1..(rows * cols) |-> matrix[((n - 1) % rows) + 1][((n - 1) \div rows) + 1]]

flatten(matrix) == flatten_rows(matrix)

(***************************************************************************)
(* write_mem_file: one decimal value per line                              *)
(***************************************************************************)
Digit(d) == <<"0", "1", "2", "3", "4", "5", "6", "7", "8", "9">>[d + 1]

RECURSIVE Decimal(_)
Decimal(n) ==
    IF n < 0 THEN <<"-">> \o Decimal(-n)
    ELSE IF n < 10 THEN <<Digit(n)>>
    ELSE Decimal(n \div 10) \o <<Digit(n % 10)>>

mem_lines(values) == [n \in 1..Len(values) |-> Decimal(values[n])]

(***************************************************************************)
(* build_payload, one pass of "for size in sizes" at a time                *)
(***************************************************************************)
\* the divisibility test with the wrong modulus
size_supported_mod8(size) == size % 8 = 0

\* the test of "if size % 4 != 0: raise ValueError"
size_supported(size) == size % 4 = 0

\* the block record built after the offsets were advanced
block_meta_after_advance(size, ab, bb, ob, eb) ==
    [size |-> size, a_base |-> ab + size * 4, b_base |-> bb + size * 4,
     o_base |-> ob + size * size, expected_base |-> eb + size * size]

\* the block record appended to meta["instructions"]
block_meta(size, ab, bb, ob, eb) ==
    [size |-> size, a_base |-> ab, b_base |-> bb, o_base |-> ob, expected_base |-> eb]

\* the termination instruction left out
terminate_missing(instr) == instr

\* instructions.append(0)
terminate(instr) == Append(instr, 0)

NoError == [type |-> "none", names |-> {}]

Init ==
    /\ sizes \in SeqsUpTo(SizeDomain, MaxBlocks) \ {<<>>}
    /\ frac_bits \in FracDomain
    /\ value_range \in RangeDomain
    /\ seed \in SeedDomain
    /\ rng \in EntropyDomain
    /\ pc = "start"
    /\ idx = 0
    /\ instructions = <<>> /\ data_a = <<>> /\ data_b = <<>> /\ expected = <<>>
    /\ meta = <<>>
    /\ a_base = 0 /\ b_base = 0 /\ o_base = 0 /\ expected_base = 0
    /\ mats = <<>>
    /\ files = <<>>
    /\ error = NoError
    /\ run = 1
    /\ prev = <<>>
    /\ call = [fn |-> "main"]
    /\ ret = <<>>

\* random.seed(args.seed), then build_payload's prologue
Seed ==
    /\ pc = "start"
    /\ rng' = random_seed(rng, seed)
    /\ meta' = [frac_bits |-> frac_bits, instructions |-> <<>>]
    /\ pc' = "build"
    /\ UNCHANGED <<sizes, frac_bits, value_range, seed, idx, instructions, data_a,
                   data_b, expected, a_base, b_base, o_base, expected_base, mats,
                   files, error, run, prev, call, ret>>

\* one pass of the loop body
Block ==
    /\ pc = "build"
    /\ idx < Len(sizes)
    /\ LET size == sizes[idx + 1]
           ga   == generate_matrix(size, 4, value_range, rng)
           gb   == generate_matrix(4, size, value_range, ga.rng)
       IN  IF ~size_supported(size)
           THEN /\ pc' = "failed"
                /\ error' = [type |-> "ValueError", names |-> {size}]
                /\ UNCHANGED <<rng, idx, instructions, data_a, data_b, expected, meta,
                               a_base, b_base, o_base, expected_base, mats>>
           ELSE IF MultiplyRaises(ga.matrix, gb.matrix)
           THEN /\ pc' = "failed"
                /\ error' = [type |-> "IndexError", names |-> {}]
                /\ rng' = gb.rng
                /\ UNCHANGED <<idx, instructions, data_a, data_b, expected, meta,
                               a_base, b_base, o_base, expected_base, mats>>
           ELSE LET matrix_c == multiply_matrices(ga.matrix, gb.matrix, frac_bits)
                IN  /\ rng' = gb.rng
                    /\ instructions' = Append(instructions, size)
                    /\ data_a' = data_a \o flatten(ga.matrix)
                    /\ data_b' = data_b \o flatten(gb.matrix)
                    /\ expected' = expected \o flatten(matrix_c)
                    /\ meta' = [meta EXCEPT !.instructions =
                                   Append(@, block_meta(size, a_base, b_base, o_base,
                                                        expected_base))]
                    /\ a_base' = a_base + size * 4
                    /\ b_base' = b_base + size * 4
                    /\ o_base' = o_base + size * size
                    /\ expected_base' = expected_base + size * size
                    /\ mats' = Append(mats, [matrix_a |-> ga.matrix,
                                             matrix_b |-> gb.matrix,
                                             matrix_c |-> matrix_c])
                    /\ idx' = idx + 1
                    /\ UNCHANGED <<pc, error>>
    /\ UNCHANGED <<sizes, frac_bits, value_range, seed, files, run, prev, call, ret>>

\* after the loop: the termination instruction and the totals
Finish ==
    /\ pc = "build"
    /\ idx = Len(sizes)
    /\ instructions' = terminate(instructions)
    /\ meta' = meta @@ [instruction_count |-> Len(sizes),
                        total_a_words |-> a_base,
                        total_b_words |-> b_base,
                        total_expected_words |-> expected_base]
    /\ pc' = "mkdir"
    /\ UNCHANGED <<sizes, frac_bits, value_range, seed, rng, idx, data_a, data_b,
                   expected, a_base, b_base, o_base, expected_base, mats, files,
                   error, run, prev, call, ret>>

Others == <<sizes, frac_bits, value_range, seed, rng, idx, instructions, data_a,
            data_b, expected, meta, a_base, b_base, o_base, expected_base, mats,
            run, prev, call, ret>>

\* out_dir.mkdir(parents=True, exist_ok=True)
Mkdir ==
    /\ pc = "mkdir"
    /\ \/ /\ pc' = "write_instructions"
          /\ UNCHANGED error
       \/ /\ pc' = "failed"
          /\ error' = [type |-> "OSError", names |-> {}]
    /\ UNCHANGED files
    /\ UNCHANGED Others

\* what a failed write leaves of the file: nothing, or some of its first lines
PartialLengths(lines) == {0, Len(lines) \div 2}

WriteMem(at, name, values, next) ==
    /\ pc = at
    /\ \/ /\ files' = (name :> mem_lines(values)) @@ files
          /\ pc' = next
          /\ UNCHANGED error
       \/ /\ \/ UNCHANGED files
             \/ \E n \in PartialLengths(values) :
                    files' = (name :> SubSeq(mem_lines(values), 1, n)) @@ files
          /\ pc' = "failed"
          /\ error' = [type |-> "OSError", names |-> {}]
    /\ UNCHANGED Others

WriteInstructions == WriteMem("write_instructions", "instructions.mem", instructions, "write_a")
WriteA == WriteMem("write_a", "dataA.mem", data_a, "write_b")
WriteB == WriteMem("write_b", "dataB.mem", data_b, "write_expected")
WriteExpected == WriteMem("write_expected", "expected.mem", expected, "write_meta")

\* json.dump(meta, handle, indent=2), then the summary line
WriteMeta ==
    /\ pc = "write_meta"
    /\ \/ /\ files' = ("vectors_meta.json" :> <<meta>>) @@ files
          /\ pc' = "done"
          /\ UNCHANGED error
       \/ /\ \/ UNCHANGED files
             \/ files' = ("vectors_meta.json" :> <<>>) @@ files
          /\ pc' = "failed"
          /\ error' = [type |-> "OSError", names |-> {}]
    /\ UNCHANGED Others

\* the same command line again, in a new process and an empty output directory
Rerun ==
    /\ pc = "done"
    /\ run = 1
    /\ run' = 2
    /\ prev' = files
    /\ rng' \in EntropyDomain
    /\ pc' = "start"
    /\ idx' = 0
    /\ instructions' = <<>> /\ data_a' = <<>> /\ data_b' = <<>> /\ expected' = <<>>
    /\ meta' = <<>>
    /\ a_base' = 0 /\ b_base' = 0 /\ o_base' = 0 /\ expected_base' = 0
    /\ mats' = <<>>
    /\ files' = <<>>
    /\ UNCHANGED <<sizes, frac_bits, value_range, seed, error, call, ret>>

Next ==
    \/ Seed
    \/ Block
    \/ Finish
    \/ Mkdir
    \/ WriteInstructions
    \/ WriteA
    \/ WriteB
    \/ WriteExpected
    \/ WriteMeta
    \/ Rerun

Spec == Init /\ [][Next]_vars

(***************************************************************************)
(* SpecPure: the two pure functions on inputs of their whole domain        *)
(***************************************************************************)
SatInputs ==
    ((-SatSpan)..SatSpan) \cup ((65535 - SatSpan)..(65535 + SatSpan))
        \cup {-70000, 131071, 131072, 200000}

RowVecs == {<<1, 2, 3, 4>>, <<-3, 5, 0, -7>>, <<300, 300, 300, 300>>, <<-300, 7, 255, 1>>}
ColVecs == {<<5, 6, 7, 8>>, <<-1, 3, 2, 2>>, <<300, 300, 300, 300>>, <<-300, 1, 257, 0>>}
PureFracDomain == {0, 1, 3}

\* the 4 x cols matrix whose columns are cs
FromColumns(cs) == [k \in 1..4 |-> [c \in 1..Len(cs) |-> cs[c][k]]]

SatCalls == {[fn |-> "saturate_u16", value |-> v] : v \in SatInputs}

MulCalls ==
    {[fn |-> "multiply_matrices", a |-> a, b |-> FromColumns(cs), frac_bits |-> f] :
        a \in SeqsUpTo(RowVecs, MaxRows) \ {<<>>},
        cs \in SeqsUpTo(ColVecs, MaxCols) \ {<<>>},
        f \in PureFracDomain}

InitPure ==
    /\ call \in SatCalls \cup MulCalls
    /\ ret = <<>>
    /\ pc = "pure"
    /\ sizes = <<>> /\ frac_bits = 0 /\ value_range = 0 /\ seed = 0 /\ rng = 0
    /\ idx = 0
    /\ instructions = <<>> /\ data_a = <<>> /\ data_b = <<>> /\ expected = <<>>
    /\ meta = <<>>
    /\ a_base = 0 /\ b_base = 0 /\ o_base = 0 /\ expected_base = 0
    /\ mats = <<>>
    /\ files = <<>>
    /\ error = NoError
    /\ run = 1
    /\ prev = <<>>

PipelineVars == <<sizes, frac_bits, value_range, seed, rng, pc, idx, instructions,
                  data_a, data_b, expected, meta, a_base, b_base, o_base,
                  expected_base, mats, files, error, run, prev>>

CallSaturate ==
    /\ call.fn = "saturate_u16"
    /\ ret = <<>>
    /\ ret' = <<saturate_u16(call.value)>>
    /\ UNCHANGED <<call, PipelineVars>>

CallMultiply ==
    /\ call.fn = "multiply_matrices"
    /\ ret = <<>>
    /\ ret' = <<multiply_matrices(call.a, call.b, call.frac_bits)>>
    /\ UNCHANGED <<call, PipelineVars>>

NextPure ==
    \/ CallSaturate
    \/ CallMultiply

SpecPure == InitPure /\ [][NextPure]_vars

(***************************************************************************)
(* Properties                                                              *)
(***************************************************************************)
ClampTo(lo, hi, x) == IF x < lo THEN lo ELSE IF x > hi THEN hi ELSE x

\* floor(x / d) for d > 0, from division of naturals only
FloorDiv(x, d) == IF x >= 0 THEN x \div d ELSE -(((-x) + d - 1) \div d)

BuildFailed == error.type \in {"ValueError", "IndexError"}
BuildReturned == pc \notin {"start", "build", "pure"} /\ ~BuildFailed

RECURSIVE SumOver(_, _, _)
\* sum of F(s[j]) over j in 1..n
SumOver(F(_), s, n) == IF n = 0 THEN 0 ELSE SumOver(F, s, n - 1) + F(s[n])

TimesFour(x) == 4 * x
Squared(x) == x * x
TimesEight(x) == 8 * x

\* C6: saturate_u16 is the clamp to [0, 65535]: above 65535 it returns 65535,
\* below 0 it returns 0, in range it returns its argument, and saturating the
\* result again changes nothing.
C6_SaturateClamps ==
    (call.fn = "saturate_u16" /\ ret # <<>>) =>
        LET v == call.value
            out == ret[1]
        IN  /\ v > 65535 => out = 65535
            /\ v < 0 => out = 0
            /\ (0 <= v /\ v <= 65535) => out = v
            /\ out \in 0..65535
            /\ saturate_u16(out) = out

C6_Witness ==
    /\ call.fn = "saturate_u16"
    /\ call.value = 65536
    /\ ret = <<65535>>

\* the full sum of the four shifted products of cell (r, c)
FullSum(a, b, r, c, frac) ==
    FloorDiv(a[r][1] * b[1][c], 2 ^ frac) + FloorDiv(a[r][2] * b[2][c], 2 ^ frac)
        + FloorDiv(a[r][3] * b[3][c], 2 ^ frac) + FloorDiv(a[r][4] * b[4][c], 2 ^ frac)

\* C5: multiply_matrices(a, b, frac_bits) of a rows x 4 and a 4 x cols matrix
\* is the rows x cols matrix whose cell (r, c) is the clamp to [0, 65535],
\* applied once, of the sum over k of floor(a[r][k] * b[k][c] / 2^frac_bits);
\* [[1,2,3,4]] times the column [5,6,7,8] with frac_bits 0 is [[70]].
C5_MultiplyFinalSaturation ==
    (call.fn = "multiply_matrices" /\ ret # <<>>) =>
        LET a == call.a
            b == call.b
            m == ret[1]
        IN  /\ Len(m) = Len(a)
            /\ \A r \in 1..Len(a) :
                  /\ Len(m[r]) = Len(b[1])
                  /\ \A c \in 1..Len(b[1]) :
                        m[r][c] = ClampTo(0, 65535, FullSum(a, b, r, c, call.frac_bits))
            /\ (a = <<<<1, 2, 3, 4>>>> /\ b = <<<<5>>, <<6>>, <<7>>, <<8>>>>
                    /\ call.frac_bits = 0) => m = <<<<70>>>>

\* a call where a product is negative and odd under a shift, and another cell's
\* sum exceeds 65535
C5_Witness ==
    /\ call.fn = "multiply_matrices"
    /\ ret # <<>>
    /\ call.frac_bits > 0
    /\ \E r \in 1..Len(call.a), c \in 1..Len(call.b[1]), k \in 1..4 :
          /\ call.a[r][k] * call.b[k][c] < 0
          /\ (call.a[r][k] * call.b[k][c]) % 2 = 1
    /\ \E r \in 1..Len(call.a), c \in 1..Len(call.b[1]) :
          /\ FullSum(call.a, call.b, r, c, call.frac_bits) > 65535
          /\ ret[1][r][c] = 65535

AllFiles == {"instructions.mem", "dataA.mem", "dataB.mem", "expected.mem", "vectors_meta.json"}

\* positions of the sizes that are not multiples of 4
Offending == {k \in 1..Len(sizes) : sizes[k] % 4 # 0}
FirstOffending == CHOOSE k \in Offending : \A j \in Offending : k <= j

C2_InstructionStream ==
    BuildReturned =>
        /\ instructions = sizes \o <<0>>
        /\ instructions[Len(instructions)] = 0
        /\ \A k \in 1..(Len(instructions) - 1) : instructions[k] # 0

C2_Witness ==
    /\ pc = "done"
    /\ Len(sizes) = 2
    /\ Len(instructions) = 3

\* C3: block i of the metadata holds the offsets as they were before its data
\* was appended: a_base = b_base = sum of 4*size_j over j < i, o_base =
\* expected_base = sum of size_j^2 over j < i; for sizes [4, 8] block 1 has
\* a_base 16 and o_base 16 and total_a_words is 48.
C3_BaseOffsets ==
    (pc \notin {"start", "pure"}) =>
        /\ Len(meta.instructions) = idx
        /\ \A i \in 1..Len(meta.instructions) :
              LET blk == meta.instructions[i]
              IN  /\ blk.size = sizes[i]
                  /\ blk.a_base = SumOver(TimesFour, sizes, i - 1)
                  /\ blk.b_base = SumOver(TimesFour, sizes, i - 1)
                  /\ blk.o_base = SumOver(Squared, sizes, i - 1)
                  /\ blk.expected_base = SumOver(Squared, sizes, i - 1)
                  /\ i = 1 => (blk.a_base = 0 /\ blk.b_base = 0 /\ blk.o_base = 0
                                  /\ blk.expected_base = 0)
        /\ (sizes = <<4, 8>> /\ BuildReturned) =>
              /\ meta.instructions[2].a_base = 16
              /\ meta.instructions[2].o_base = 16
              /\ meta.total_a_words = 48

C3_Witness ==
    /\ sizes = <<4, 8>>
    /\ pc = "mkdir"
    /\ Len(meta.instructions) = 2

\* C4: a run that has ended, failed or not, leaves either none of the five
\* output files or all five of them, each complete.
C4_AllOrNothing ==
    (pc \in {"failed", "done"}) =>
        \/ DOMAIN files = {}
        \/ /\ DOMAIN files = AllFiles
           /\ files["instructions.mem"] = mem_lines(instructions)
           /\ files["dataA.mem"] = mem_lines(data_a)
           /\ files["dataB.mem"] = mem_lines(data_b)
           /\ files["expected.mem"] = mem_lines(expected)
           /\ files["vectors_meta.json"] = <<meta>>

\* C7: the second run of the same seed, sizes, frac_bits and value_range ends
\* with the files the first run wrote, whatever state the generator of either
\* process started in.
C7_Deterministic ==
    (run = 2 /\ pc = "done") => files = prev

C7_Witness ==
    /\ run = 2
    /\ pc = "done"
    /\ value_range = 600
    /\ Len(sizes) = 2
    /\ DOMAIN prev = AllFiles

\* the n generator states that follow state st, in order
RECURSIVE Following(_, _)
Following(st, n) ==
    IF n = 0 THEN <<>>
    ELSE IF n = 1 THEN <<(st * 25173 + 13849) % 65536>>
    ELSE LET half  == n \div 2
             left  == Following(st, half)
         IN  left \o Following(left[half], n - half)

\* the states of the seeded sequence: element n + 1 is the state after n draws
SeededStates(s, n) ==
    LET first == (s * 7919 + 10473) % 65536
    IN  <<first>> \o Following(first, n)

\* draw number n (from 0) of the sequence whose states are sts
DrawNumber(sts, n, vr) == (sts[n + 2] * (vr + 1)) \div 65536

\* C8: the draws are consumed in program order: block i starts at draw number
\* 8 * (sum of size_j over j < i), its A (size x 4) takes the next 4*size draws
\* row by row, its B (4 x size) the 4*size after those row by row, and the
\* generator has made exactly the draws of the blocks built so far.
C8_DrawOrder ==
    (pc \notin {"start", "pure"} /\ ~BuildFailed) =>
        LET sts == SeededStates(seed, SumOver(TimesEight, sizes, idx))
        IN  /\ rng = sts[SumOver(TimesEight, sizes, idx) + 1]
            /\ Len(mats) = idx
            /\ \A i \in 1..Len(mats) :
                  LET size  == sizes[i]
                      first == SumOver(TimesEight, sizes, i - 1)
                  IN  /\ \A r \in 1..size, c \in 1..4 :
                            mats[i].matrix_a[r][c] =
                                DrawNumber(sts, first + 4 * (r - 1) + (c - 1), value_range)
                      /\ \A r \in 1..4, c \in 1..size :
                            mats[i].matrix_b[r][c] =
                                DrawNumber(sts, first + 4 * size + size * (r - 1) + (c - 1),
                                           value_range)

C8_Witness ==
    /\ sizes = <<4, 8>>
    /\ idx = 2
    /\ pc = "write_b"
    /\ value_range = 600

\* C9: the totals are the lengths of the data emitted, and each block's
\* slices of data_a, data_b and expected, taken at its recorded bases, are the
\* row-major flattenings of its A (size x 4), B (4 x size) and C (size x size).
C9_CountsAndSlices ==
    (pc \notin {"start", "pure"}) =>
        /\ BuildReturned =>
              /\ meta.total_a_words = Len(data_a)
              /\ meta.total_b_words = Len(data_b)
              /\ meta.total_expected_words = Len(expected)
        /\ \A i \in 1..Len(mats) :
              LET size == sizes[i]
                  blk  == meta.instructions[i]
                  A    == mats[i].matrix_a
                  B    == mats[i].matrix_b
                  C    == mats[i].matrix_c
              IN  /\ Len(A) = size /\ \A r \in 1..size : Len(A[r]) = 4
                  /\ Len(B) = 4 /\ \A r \in 1..4 : Len(B[r]) = size
                  /\ Len(C) = size /\ \A r \in 1..size : Len(C[r]) = size
                  /\ blk.a_base + 4 * size <= Len(data_a)
                  /\ blk.b_base + 4 * size <= Len(data_b)
                  /\ blk.expected_base + size * size <= Len(expected)
                  /\ \A r \in 1..size, c \in 1..4 :
                        data_a[blk.a_base + 4 * (r - 1) + c] = A[r][c]
                  /\ \A r \in 1..4, c \in 1..size :
                        data_b[blk.b_base + size * (r - 1) + c] = B[r][c]
                  /\ \A r \in 1..size, c \in 1..size :
                        expected[blk.expected_base + size * (r - 1) + c] = C[r][c]

C9_Witness ==
    /\ sizes = <<8, 4>>
    /\ pc = "done"
    /\ Len(mats) = 2
    /\ Len(expected) = 80

\* the accumulator clamped after each of the first k partial sums
RECURSIVE PerStep(_, _, _, _, _, _)
PerStep(a, b, r, c, k, frac) ==
    IF k = 0 THEN 0
    ELSE saturate_u16(PerStep(a, b, r, c, k - 1, frac)
                          + FloorDiv(a[r][k] * b[k][c], 2 ^ frac))

\* C10: on the matrices generate_matrix produces (entries in 0..value_range),
\* every cell of the expected product equals what the per-step discipline
\* gives, and every expected value lies in [0, 65535].
C10_PerStepAgrees ==
    (pc # "pure") =>
        /\ \A i \in 1..Len(mats) :
              \A r \in 1..sizes[i], c \in 1..sizes[i] :
                  /\ mats[i].matrix_c[r][c] =
                        PerStep(mats[i].matrix_a, mats[i].matrix_b, r, c, 4, frac_bits)
                  /\ mats[i].matrix_c[r][c] \in 0..65535
        /\ \A n \in 1..Len(expected) : expected[n] \in 0..65535

\* a cell whose full sum overflows, one whose third partial sum already does
C10_Witness ==
    /\ pc = "mkdir"
    /\ \E i \in 1..Len(mats) : \E r \in 1..sizes[i], c \in 1..sizes[i] :
          /\ FullSum(mats[i].matrix_a, mats[i].matrix_b, r, c, frac_bits) > 65535
          /\ PerStep(mats[i].matrix_a, mats[i].matrix_b, r, c, 3, frac_bits) = 65535
          /\ mats[i].matrix_c[r][c] = 65535

=============================================================================
